---- MODULE Spec2Model ----
(***************************************************************************)
(* State-machine model of the interactive widgets of the PromptX landing   *)
(* page: the 3D activation-diffusion network (EngramNetwork3D), the 2D     *)
(* diagram (MemoryActivationDiagram), the scripted chat (DemoSimulation),  *)
(* the tabbed viewer (TechSpecs) and the citation box (BibTeXSection).     *)
(*                                                                         *)
(* Conventions.  A React state setter called with an updater function is   *)
(* applied at the point of the call, in call order, and the handler or     *)
(* timer callback that makes the calls is one atomic step.  Browser timers *)
(* are kept in a timer table per widget; a timer fires at its nominal due  *)
(* time, timers with an earlier due time fire first.  Activation values    *)
(* are fixed-point numbers with six decimals (1.0 is One), products are    *)
(* truncated.                                                              *)
(***************************************************************************)
EXTENDS Integers, Sequences, FiniteSets, TLC

VARIABLES
  \* ---- EngramNetwork3D ----
  eMounted,            \* the component instance is mounted
  activations,         \* useState Map<number, number>: node id -> activation
  pulseWaves,          \* useState list of {origin, startTime}
  decayIntervalRef,    \* useRef: id of the decay interval, 0 for null
  spreadTimeoutsRef,   \* useRef: list of ids of spread timeouts
  pulseCleanupRef,     \* useRef: id of the pulse cleanup timeout, 0 for null
  eTimers,             \* the browser's table of timers owned by the widget
  eNextId,             \* next timer id handed out by setTimeout/setInterval
  eClock,              \* ms elapsed, advanced by timer firings
  eClicks,             \* number of handleActivate calls so far
  eClicked,            \* per handleActivate call so far: the node and the time
  eTicks,              \* decay ticks fired since the last click
  eTrack,              \* clicked nodes -> activation at their click / the last tick
  eLate,               \* a timer callback ran after unmount
  eLast,               \* description of the last step taken
  \* ---- MemoryActivationDiagram (2D) ----
  mMounted,            \* the component instance is mounted
  nodes2D,             \* useState nodes: node id -> active
  mInterval,           \* the 100 ms diffusion interval is scheduled
  mClicks,             \* number of activateNode calls so far
  mTicks,              \* diffusion ticks since the last click while a node is active
  mLog,                \* per edge of the last tick: source, target before and after
  mLast,               \* description of the last step taken
  \* ---- DemoSimulation ----
  dMounted,            \* the component instance is mounted
  step,                \* useState step
  messages,            \* useState messages: list of [role, text]
  isTyping,            \* useState isTyping
  showCelebration,     \* useState showCelebration
  dTimers,             \* pending timeouts in creation order: [kind, left, idx]
  dPhase,              \* time modulo the grid on which the user acts
  dResets,             \* number of resetDemo calls so far
  dSinceReset,         \* resetDemo was called and no advance was made since
  dLate,               \* a timer callback ran after unmount
  dLast,               \* the last step taken
  \* ---- TechSpecs, PMLViewer, ACPViewer ----
  activeTab,           \* useState activeTab of TechSpecs
  panelHidden,         \* rendered: panel -> its hidden attribute
  panelContent,        \* rendered: panel -> its viewer component is mounted
  selectedTag,         \* useState selectedTag of PMLViewer, "none" while unmounted
  acpState,            \* useState state of ACPViewer, "none" while unmounted
  acpJson,             \* rendered: the JSON text ACPViewer shows, "" while unmounted
  \* ---- BibTeXSection ----
  clipboardApi,        \* navigator.clipboard: "available" or "unavailable"
  copied,              \* useState copied
  cTimers,             \* pending setCopied(false) timeouts: time left, in creation order
  cSince,              \* time since the last copy click (capped), -1 before the first
  uLast,               \* the last step taken in these widgets
  \* ---- App (root shell) ----
  scrolled,            \* useState scrolled
  menuOpen,            \* useState menuOpen
  isPaperOpen,         \* useState isPaperOpen
  scrollPos,           \* where the window is scrolled to: "top" or a section id
  scrollEvent,         \* a scroll event is waiting for its listener
  aLast,               \* the last step taken in the shell
  \* ---- highlightPML ----
  hText,               \* the argument of the latest call, a sequence of characters
  hParts,              \* the spans the latest call returned
  \* ---- AnimatedCounter ----
  counter,             \* the props of the counter followed, "none" before it is in view
  isInView,            \* useInView(ref, { once: true })
  count,               \* useState count
  start,               \* let start of the effect
  timer,               \* the interval of the effect is running
  kMounted,            \* the counter is mounted
  kLast                \* the last step of the counter

eVars == <<eMounted, activations, pulseWaves, decayIntervalRef, spreadTimeoutsRef,
           pulseCleanupRef, eTimers, eNextId, eClock, eClicks, eClicked, eTicks,
           eTrack, eLate, eLast>>

mVars == <<mMounted, nodes2D, mInterval, mClicks, mTicks, mLog, mLast>>

dVars == <<dMounted, step, messages, isTyping, showCelebration, dTimers, dPhase,
           dResets, dSinceReset, dLate, dLast>>

uVars == <<activeTab, panelHidden, panelContent, selectedTag, acpState, acpJson,
           clipboardApi, copied, cTimers, cSince, uLast>>

aVars == <<scrolled, menuOpen, isPaperOpen, scrollPos, scrollEvent, aLast>>

hVars == <<hText, hParts>>

kVars == <<counter, isInView, count, start, timer, kMounted, kLast>>

vars == <<eVars, mVars, dVars, uVars, aVars, hVars, kVars>>

\* the state of the widgets other than EngramNetwork3D / MemoryActivationDiagram
notEngram == <<mVars, dVars, uVars, aVars, hVars, kVars>>

notDiagram == <<eVars, dVars, uVars, aVars, hVars, kVars>>

notDemo == <<eVars, mVars, uVars, aVars, hVars, kVars>>

notUI == <<eVars, mVars, dVars, aVars, hVars, kVars>>

notApp == <<eVars, mVars, dVars, uVars, hVars, kVars>>

notHighlight == <<eVars, mVars, dVars, uVars, aVars, kVars>>

notCounter == <<eVars, mVars, dVars, uVars, aVars, hVars>>

--------------------------------------------------------------------------
\* Bounds of the exploration

\* handleActivate calls explored per behaviour
MaxClicks == 2

\* while timers run, a click (or the unmount) is taken only right after the
\* previous click or ClickAfter decay ticks after it
ClickAfter == 20

\* a 2D node is clicked only after a multiple of ClickEvery2D diffusion ticks
ClickEvery2D == 5

\* the diagram nodes clicked in the exploration of the whole page: the first
\* PageNodes nodes (node 0 is the query node the page asks the user to click)
PageNodes == 1

\* resetDemo calls explored per behaviour
MaxResets == 1

\* the demo's buttons are pressed at multiples of UserGrid time units
UserGrid == 2

\* setCopied(false) timeouts pending at a time
MaxPendingCopies == 2

\* the copy timeout is divided into CopySlices time units
CopySlices == 4

--------------------------------------------------------------------------
\* EngramNetwork3D: constants of the source

One == 1000000

\* value * 0.96
DecayPct == 96

\* strength * 0.65
TransferPct == 65

\* newValue > 0.05
Floor3D == 50000

\* depth > 3
MaxDepth == 3

\* strength < 0.1
MinStrength == 100000

\* transferStrength > 0.2
PulseMin == 200000

\* 350 * depth
SpreadDelay == 350

DecayPeriod == 80

PulseTimeout == 4000

NodeIds3D == 0 .. 5

Edges3D ==
  << [source |-> 0, target |-> 1],
     [source |-> 0, target |-> 2],
     [source |-> 1, target |-> 3],
     [source |-> 2, target |-> 4],
     [source |-> 4, target |-> 5],
     [source |-> 1, target |-> 2] >>

Range(s) == { s[i] : i \in DOMAIN s }

\* Map.get(k) || 0
MapGet(m, k) == IF k \in DOMAIN m THEN m[k] ELSE 0

\* new Map(prev).set(k, v)
MapSet(m, k, v) == [x \in (DOMAIN m) \cup {k} |-> IF x = k THEN v ELSE m[x]]

EmptyMap == [x \in {} |-> 0]

NoEvent == [op |-> "init", node |-> 0, strength |-> 0, depth |-> 0, tid |-> 0,
            at |-> 0, click |-> 0, cancelled |-> 0, raised |-> 0]

--------------------------------------------------------------------------
\* cleanupTimers: the timer table after clearing every timer the refs name

CleanupKeepSpread(timers, dref, sref, pref) ==
  { t \in timers : t.id # dref /\ t.id # pref }

CleanupTimers(timers, dref, sref, pref) ==
  { t \in timers : t.id # dref /\ t.id \notin Range(sref) /\ t.id # pref }

\* edges.filter(e => e.source === sourceId || e.target === sourceId)
ConnectedEdges(sourceId) ==
  SelectSeq(Edges3D, LAMBDA e : e.source = sourceId \/ e.target = sourceId)

TransferStrengthUndamped(strength) == strength

\* strength * 0.65
TransferStrength(strength) == (strength * TransferPct) \div 100

DecayedUp(value) == (value * 100) \div DecayPct

\* value * 0.96
Decayed(value) == (value * DecayPct) \div 100

\* the comparison and overwrite inside setActivations of a spread step
RaiseAlways(m, neighborId, transferStrength) ==
  MapSet(m, neighborId, transferStrength)

RaiseNeighbor(m, neighborId, transferStrength) ==
  IF transferStrength > MapGet(m, neighborId)
    THEN MapSet(m, neighborId, transferStrength)
    ELSE m

SpreadActivationFlatDelay(st, sourceId, strength, depth, now, click) ==
  IF depth > MaxDepth \/ strength < MinStrength
    THEN st
    ELSE [st EXCEPT
            !.timers = @ \cup {[id |-> st.nid, kind |-> "spread",
                                due |-> now + SpreadDelay,
                                src |-> sourceId, strength |-> strength,
                                depth |-> depth, click |-> click]},
            !.sref = Append(@, st.nid),
            !.nid = @ + 1]

SpreadActivationDeeper(st, sourceId, strength, depth, now, click) ==
  IF depth > MaxDepth + 1 \/ strength < MinStrength
    THEN st
    ELSE [st EXCEPT
            !.timers = @ \cup {[id |-> st.nid, kind |-> "spread",
                                due |-> now + SpreadDelay * depth,
                                src |-> sourceId, strength |-> strength,
                                depth |-> depth, click |-> click]},
            !.sref = Append(@, st.nid),
            !.nid = @ + 1]

\* spreadActivation(sourceId, strength, depth): schedules one timeout.
\* st = [acts, pulses, timers, sref, nid] is the state threaded through a handler.
SpreadActivation(st, sourceId, strength, depth, now, click) ==
  IF depth > MaxDepth \/ strength < MinStrength
    THEN st
    ELSE [st EXCEPT
            !.timers = @ \cup {[id |-> st.nid, kind |-> "spread",
                                due |-> now + SpreadDelay * depth,
                                src |-> sourceId, strength |-> strength,
                                depth |-> depth, click |-> click]},
            !.sref = Append(@, st.nid),
            !.nid = @ + 1]

\* body of connectedEdges.forEach inside the timeout callback of timer t
SpreadEdge(st, edge, t, now, mounted) ==
  LET neighborId == IF edge.source = t.src THEN edge.target ELSE edge.source
      transferStrength == TransferStrength(t.strength)
      st1 == IF mounted
               THEN [st EXCEPT !.acts = RaiseNeighbor(@, neighborId, transferStrength)]
               ELSE st
      st2 == IF mounted /\ transferStrength > PulseMin
               THEN [st1 EXCEPT !.pulses =
                        Append(@, [origin |-> neighborId, startTime |-> now,
                                   click |-> t.click])]
               ELSE st1
  IN SpreadActivation(st2, neighborId, transferStrength, t.depth + 1, now, t.click)

RECURSIVE SpreadEdges(_, _, _, _, _, _)
SpreadEdges(st, es, i, t, now, mounted) ==
  IF i > Len(es)
    THEN st
    ELSE SpreadEdges(SpreadEdge(st, es[i], t, now, mounted), es, i + 1, t, now, mounted)

DecayMapNoDrop(prev) == [k \in DOMAIN prev |-> Decayed(prev[k])]

\* the updater of the decay interval: the surviving entries
DecayMap(prev) ==
  LET keep == { k \in DOMAIN prev : Decayed(prev[k]) > Floor3D }
  IN [k \in keep |-> Decayed(prev[k])]

--------------------------------------------------------------------------
\* Timer table: which timer fires next

MinDue(timers) == CHOOSE d \in { t.due : t \in timers } :
                    \A t \in timers : d <= t.due

\* timeouts set with the same delay fire in creation order
Fireable(t) ==
  /\ t \in eTimers
  /\ t.due = MinDue(eTimers)
  /\ t.kind = "spread" =>
       \A u \in eTimers : (u.kind = "spread" /\ u.due = t.due) => u.id >= t.id

--------------------------------------------------------------------------
\* EngramNetwork3D: actions

EngramInit ==
  /\ eMounted = TRUE
  /\ activations = EmptyMap
  /\ pulseWaves = << >>
  /\ decayIntervalRef = 0
  /\ spreadTimeoutsRef = << >>
  /\ pulseCleanupRef = 0
  /\ eTimers = {}
  /\ eNextId = 1
  /\ eClock = 0
  /\ eClicks = 0
  /\ eClicked = << >>
  /\ eTicks = 0
  /\ eTrack = EmptyMap
  /\ eLate = FALSE
  /\ eLast = NoEvent

\* handleActivate(id)
HandleActivate(id) ==
  /\ eMounted
  /\ eClicks < MaxClicks
  /\ eTimers = {} \/ eTicks \in {0, ClickAfter}
  /\ LET cleared == CleanupTimers(eTimers, decayIntervalRef, spreadTimeoutsRef,
                                  pulseCleanupRef)
         click == eClicks + 1
         st0 == [acts |-> MapSet(activations, id, One),
                 pulses |-> Append(pulseWaves, [origin |-> id, startTime |-> eClock,
                                                   click |-> click]),
                 timers |-> cleared,
                 sref |-> << >>,
                 nid |-> eNextId]
         st1 == SpreadActivation(st0, id, One, 1, eClock, click)
         decayId == st1.nid
         pulseId == st1.nid + 1
     IN /\ activations' = st1.acts
        /\ pulseWaves' = st1.pulses
        /\ spreadTimeoutsRef' = st1.sref
        /\ decayIntervalRef' = decayId
        /\ pulseCleanupRef' = pulseId
        /\ eTimers' = st1.timers \cup
             { [id |-> decayId, kind |-> "decay", due |-> eClock + DecayPeriod,
                src |-> 0, strength |-> 0, depth |-> 0, click |-> click],
               [id |-> pulseId, kind |-> "pulse", due |-> eClock + PulseTimeout,
                src |-> 0, strength |-> 0, depth |-> 0, click |-> click] }
        /\ eNextId' = st1.nid + 2
        /\ eClicks' = click
        /\ eClicked' = Append(eClicked, [node |-> id, at |-> eClock])
        /\ eTicks' = 0
        /\ eTrack' = MapSet(eTrack, id, One)
        /\ eLast' = [op |-> "click", node |-> id, strength |-> One, depth |-> 0,
                     tid |-> 0, at |-> eClock, click |-> click,
                     cancelled |-> Cardinality(eTimers) - Cardinality(cleared),
                     raised |-> 0]
  /\ UNCHANGED <<eMounted, eClock, eLate>>
  /\ UNCHANGED notEngram

\* the callback of a spread timeout
SpreadFire ==
  \E t \in eTimers :
    /\ t.kind = "spread"
    /\ Fireable(t)
    /\ LET st0 == [acts |-> activations, pulses |-> pulseWaves,
                   timers |-> eTimers \ {t}, sref |-> spreadTimeoutsRef,
                   nid |-> eNextId]
           st1 == SpreadEdges(st0, ConnectedEdges(t.src), 1, t, t.due, eMounted)
       IN /\ activations' = st1.acts
          /\ pulseWaves' = st1.pulses
          /\ eTimers' = st1.timers
          /\ spreadTimeoutsRef' = st1.sref
          /\ eNextId' = st1.nid
          /\ eTrack' = eTrack
          /\ eClock' = t.due
          /\ eLate' = (eLate \/ ~eMounted)
          /\ eLast' = [op |-> "spread", node |-> t.src, strength |-> t.strength,
                       depth |-> t.depth, tid |-> t.id, at |-> t.due,
                       click |-> t.click, cancelled |-> 0,
                       raised |-> Cardinality({ k \in DOMAIN st1.acts :
                                     MapGet(activations, k) # st1.acts[k] })]
    /\ UNCHANGED <<eMounted, decayIntervalRef, pulseCleanupRef, eClicks, eClicked,
                   eTicks>>
  /\ UNCHANGED notEngram

\* the callback of the decay interval
DecayTick ==
  \E t \in eTimers :
    /\ t.kind = "decay"
    /\ Fireable(t)
    /\ LET newMap == IF eMounted THEN DecayMap(activations) ELSE activations
           hasActiveNodes == DOMAIN newMap # {}
           selfCancel == eMounted /\ ~hasActiveNodes /\ decayIntervalRef # 0
       IN /\ activations' = newMap
          /\ eTimers' = IF selfCancel
                          THEN { u \in eTimers \ {t} : u.id # decayIntervalRef }
                          ELSE (eTimers \ {t}) \cup {[t EXCEPT !.due = @ + DecayPeriod]}
          /\ decayIntervalRef' = IF selfCancel THEN 0 ELSE decayIntervalRef
          /\ eTrack' = [k \in (DOMAIN eTrack) \cap (DOMAIN newMap) |-> newMap[k]]
          /\ eClock' = t.due
          /\ eTicks' = eTicks + 1
          /\ eLate' = (eLate \/ ~eMounted)
          /\ eLast' = [op |-> "tick", node |-> 0, strength |-> 0, depth |-> 0,
                       tid |-> t.id, at |-> t.due, click |-> t.click,
                       cancelled |-> IF selfCancel THEN 1 ELSE 0, raised |-> 0]
    /\ UNCHANGED <<eMounted, pulseWaves, spreadTimeoutsRef, pulseCleanupRef,
                   eNextId, eClicks, eClicked>>
  /\ UNCHANGED notEngram

PulseCleanupKeepsList ==
  \E t \in eTimers :
    /\ t.kind = "pulse"
    /\ Fireable(t)
    /\ pulseWaves' = pulseWaves
    /\ eTimers' = eTimers \ {t}
    /\ eClock' = t.due
    /\ eLate' = (eLate \/ ~eMounted)
    /\ eLast' = [op |-> "pulse", node |-> 0, strength |-> 0, depth |-> 0,
                 tid |-> t.id, at |-> t.due, click |-> t.click, cancelled |-> 0,
                 raised |-> 0]
    /\ UNCHANGED <<eMounted, activations, decayIntervalRef, spreadTimeoutsRef,
                   pulseCleanupRef, eNextId, eClicks, eClicked, eTicks, eTrack>>
  /\ UNCHANGED notEngram

\* the callback of the pulse cleanup timeout
PulseCleanup ==
  \E t \in eTimers :
    /\ t.kind = "pulse"
    /\ Fireable(t)
    /\ pulseWaves' = IF eMounted THEN << >> ELSE pulseWaves
    /\ eTimers' = eTimers \ {t}
    /\ eClock' = t.due
    /\ eLate' = (eLate \/ ~eMounted)
    /\ eLast' = [op |-> "pulse", node |-> 0, strength |-> 0, depth |-> 0,
                 tid |-> t.id, at |-> t.due, click |-> t.click, cancelled |-> 0,
                 raised |-> 0]
    /\ UNCHANGED <<eMounted, activations, decayIntervalRef, spreadTimeoutsRef,
                   pulseCleanupRef, eNextId, eClicks, eClicked, eTicks, eTrack>>
  /\ UNCHANGED notEngram

\* the cleanup function of the unmount effect
Unmount3D ==
  /\ eMounted
  /\ eClicks > 0
  /\ eTimers = {} \/ eTicks \in {0, ClickAfter}
  /\ LET cleared == CleanupTimers(eTimers, decayIntervalRef, spreadTimeoutsRef,
                                  pulseCleanupRef)
     IN /\ eTimers' = cleared
        /\ eLast' = [op |-> "unmount", node |-> 0, strength |-> 0, depth |-> 0,
                     tid |-> 0, at |-> eClock, click |-> eClicks,
                     cancelled |-> Cardinality(eTimers) - Cardinality(cleared),
                     raised |-> 0]
  /\ eMounted' = FALSE
  /\ decayIntervalRef' = 0
  /\ spreadTimeoutsRef' = << >>
  /\ pulseCleanupRef' = 0
  /\ UNCHANGED <<activations, pulseWaves, eNextId, eClock, eClicks, eClicked,
                 eTicks, eTrack, eLate>>
  /\ UNCHANGED notEngram

EngramClick == \E id \in NodeIds3D : HandleActivate(id)

EngramNext ==
  \/ EngramClick
  \/ SpreadFire
  \/ DecayTick
  \/ PulseCleanup
  \/ Unmount3D

\* the nodes clicked in the exploration of complete runs of the timers: the
\* first LiveNodes nodes
LiveNodes == 2

EngramLiveClick == \E id \in 0 .. LiveNodes - 1 : HandleActivate(id)

EngramLiveNext ==
  \/ EngramLiveClick
  \/ SpreadFire
  \/ DecayTick
  \/ PulseCleanup
  \/ Unmount3D

--------------------------------------------------------------------------
\* MemoryActivationDiagram (2D).  Activations are fixed-point numbers with
\* five decimals, which represent every value the diffusion produces exactly.

One2D == 100000

\* n.active - 0.05
DecayStep2D == 5000

\* source.active > 0.2
SpreadMin2D == 20000

\* source.active * 0.1
DiffusionDiv == 10

NodeIds2D == 0 .. 5

Edges2D ==
  << [s |-> 0, t |-> 1], [s |-> 0, t |-> 2],
     [s |-> 1, t |-> 3],
     [s |-> 2, t |-> 4],
     [s |-> 4, t |-> 5],
     [s |-> 2, t |-> 1] >>

Max(a, b) == IF a >= b THEN a ELSE b

Min(a, b) == IF a <= b THEN a ELSE b

DecayNodesNoClamp(a) ==
  [n \in DOMAIN a |-> IF a[n] > 0 THEN a[n] - DecayStep2D ELSE a[n]]

DecayNodesBelowZero(a) == [n \in DOMAIN a |-> a[n] - DecayStep2D]

\* newNodes.forEach: decay existing activation
DecayNodes(a) ==
  [n \in DOMAIN a |-> IF a[n] > 0 THEN Max(0, a[n] - DecayStep2D) ELSE a[n]]

\* body of edges.forEach.  newNodes is a shallow copy of prev, so the source
\* read through prev is the object the loop has already updated.
SpreadAlong2DNoCompare(a, edge) ==
  IF a[edge.s] > SpreadMin2D
    THEN [a EXCEPT ![edge.t] = Min(One2D, a[edge.t] + a[edge.s] \div DiffusionDiv)]
    ELSE a

SpreadAlong2DBothWays(a, edge) ==
  LET f == IF a[edge.s] > SpreadMin2D /\ a[edge.t] < a[edge.s]
             THEN [a EXCEPT ![edge.t] = Min(One2D, a[edge.t] + a[edge.s] \div DiffusionDiv)]
             ELSE a
  IN IF f[edge.t] > SpreadMin2D /\ f[edge.s] < f[edge.t]
       THEN [f EXCEPT ![edge.s] = Min(One2D, f[edge.s] + f[edge.t] \div DiffusionDiv)]
       ELSE f

SpreadAlong2D(a, edge) ==
  IF a[edge.s] > SpreadMin2D /\ a[edge.t] < a[edge.s]
    THEN [a EXCEPT ![edge.t] = Min(One2D, a[edge.t] + a[edge.s] \div DiffusionDiv)]
    ELSE a

\* edges.forEach from edge i on; st = [a, log]
RECURSIVE SpreadEdges2D(_, _)
SpreadEdges2D(st, i) ==
  IF i > Len(Edges2D)
    THEN st
    ELSE LET e == Edges2D[i]
         IN CHOOSE r \in
              { SpreadEdges2D([a |-> b,
                               log |-> Append(st.log, [s |-> e.s, t |-> e.t,
                                                       src |-> st.a[e.s],
                                                       tgt |-> st.a[e.t],
                                                       out |-> b[e.t]])],
                              i + 1) : b \in {SpreadAlong2D(st.a, e)} } : TRUE

\* the updater of the diffusion interval
DiffusionTick(prev) == SpreadEdges2D([a |-> DecayNodes(prev), log |-> << >>], 1)

DiagramInit ==
  /\ mMounted = TRUE
  /\ nodes2D = [n \in NodeIds2D |-> 0]
  /\ mInterval = TRUE
  /\ mClicks = 0
  /\ mTicks = 0
  /\ mLog = << >>
  /\ mLast = [op |-> "init", node |-> 0]

\* activateNode(id)
ActivateNode(id) ==
  /\ mMounted
  /\ mClicks < MaxClicks
  /\ mTicks % ClickEvery2D = 0
  /\ nodes2D' = [n \in DOMAIN nodes2D |-> IF n = id THEN One2D ELSE nodes2D[n]]
  /\ mClicks' = mClicks + 1
  /\ mTicks' = 0
  /\ mLast' = [op |-> "click", node |-> id]
  /\ UNCHANGED <<mMounted, mInterval, mLog>>
  /\ UNCHANGED notDiagram

\* the callback of the diffusion interval
DiffusionFire ==
  /\ mInterval
  /\ \E r \in {DiffusionTick(nodes2D)} :
        /\ nodes2D' = r.a
        /\ mLog' = r.log
        /\ mTicks' = IF \A n \in DOMAIN r.a : r.a[n] = 0 THEN 0 ELSE mTicks + 1
  /\ mLast' = [op |-> "tick", node |-> 0]
  /\ UNCHANGED <<mMounted, mInterval, mClicks>>
  /\ UNCHANGED notDiagram

\* the cleanup function of the interval effect
Unmount2D ==
  /\ mMounted
  /\ mMounted' = FALSE
  /\ mInterval' = FALSE
  /\ mLast' = [op |-> "unmount", node |-> 0]
  /\ UNCHANGED <<nodes2D, mClicks, mTicks, mLog>>
  /\ UNCHANGED notDiagram

DiagramClick == \E id \in NodeIds2D : ActivateNode(id)

DiagramNext ==
  \/ DiagramClick
  \/ DiffusionFire
  \/ Unmount2D

\* complete runs of the diffusion: clicks on the first LiveNodes nodes
DiagramLiveClick == \E id \in 0 .. LiveNodes - 1 : ActivateNode(id)

DiagramLiveNext ==
  \/ DiagramLiveClick
  \/ DiffusionFire
  \/ Unmount2D

--------------------------------------------------------------------------
\* DemoSimulation.  Time is counted in units of TimeUnit ms, the greatest
\* common measure of the three timeout delays; a pending timeout carries the
\* time left until it fires.  A message is its role and text (its id and its
\* formatted timestamp are not modelled).

\* setTimeout(..., 800)
UserDelay == 800

\* setTimeout(..., 1500)
AgentDelay == 1500

\* setTimeout(() => setShowCelebration(false), 3000)
CelebrationDelay == 3000

RECURSIVE GCD(_, _)
GCD(a, b) == IF b = 0 THEN a ELSE GCD(b, a % b)

TimeUnit == GCD(UserDelay, GCD(AgentDelay, CelebrationDelay))

\* steps, Steps[i + 1] being the entry with id i ("" where the entry has no text)
Steps ==
  << [id |-> 0, user |-> "", agent |-> ""],
     [id |-> 1, user |-> "I need a tool that can query real-time stock data from Alpha Vantage.",
                agent |-> "I've researched the documentation. ... Validating in sandbox..."],
     [id |-> 2, user |-> "Great. Now create a stock trading character named 'Wolf' that uses this tool.",
                agent |-> "Understood. Initiating Nuwa engine... bound to the Alpha Vantage tool."],
     [id |-> 3, user |-> "I currently hold Tesla (TSLA) and Amazon (AMZN) stocks. I hope to make a profit.",
                agent |-> "Noted. I have analyzed this input. Saving core facts to Engram memory: 'User holds TSLA, AMZN'."],
     [id |-> 4, user |-> "System: *2 Hours Later (New Session)*... Activate the stock analyst. Recall my stocks and analyze today's market.",
                agent |-> "Welcome back. Retrieving context... I recommend holding."] >>

\* steps.length - 1
LastStep == Len(Steps) - 1

\* steps[nextStepIdx]
StepDataOffByOne(idx) == Steps[idx]

StepData(idx) == Steps[idx + 1]

\* a timeout of a kind fires before the later-created timeouts of that kind
DemoDue(i) ==
  /\ i \in DOMAIN dTimers
  /\ dTimers[i].left = 0
  /\ \A j \in 1 .. i - 1 : ~(dTimers[j].kind = dTimers[i].kind /\ dTimers[j].left = 0)

RemoveAt(seq, i) == SubSeq(seq, 1, i - 1) \o SubSeq(seq, i + 1, Len(seq))

\* the phase of the user's grid after a timer callback
PhaseAfter(timers) == IF timers = << >> THEN 0 ELSE dPhase

DemoInit ==
  /\ dMounted = TRUE
  /\ step = 0
  /\ messages = << >>
  /\ isTyping = FALSE
  /\ showCelebration = FALSE
  /\ dTimers = << >>
  /\ dPhase = 0
  /\ dResets = 0
  /\ dSinceReset = FALSE
  /\ dLate = FALSE
  /\ dLast = "init"

\* handleNextStep, called by the advance button (rendered while
\* step < steps.length - 1, disabled while isTyping)
HandleNextStep ==
  /\ dMounted
  /\ dPhase = 0
  /\ ~isTyping
  /\ step < LastStep
  /\ ~(step >= Len(Steps) - 1)
  /\ LET nextStepIdx == step + 1
     IN /\ step' = nextStepIdx
        /\ isTyping' = TRUE
        /\ dTimers' = Append(dTimers, [kind |-> "user", left |-> UserDelay \div TimeUnit,
                                      idx |-> nextStepIdx])
  /\ dSinceReset' = FALSE
  /\ dLast' = "advance"
  /\ UNCHANGED <<dMounted, messages, showCelebration, dPhase, dResets, dLate>>
  /\ UNCHANGED notDemo

\* the outer timeout callback of handleNextStep
UserMessageFire ==
  /\ \E i \in DOMAIN dTimers :
       /\ dTimers[i].kind = "user"
       /\ DemoDue(i)
       /\ LET t == dTimers[i]
              rest == Append(RemoveAt(dTimers, i),
                             [kind |-> "agent", left |-> AgentDelay \div TimeUnit,
                              idx |-> t.idx])
          IN /\ messages' = IF dMounted
                              THEN Append(messages, [role |-> "user",
                                                     text |-> StepData(t.idx).user])
                              ELSE messages
             /\ dTimers' = rest
  /\ dLate' = (dLate \/ ~dMounted)
  /\ dLast' = "user"
  /\ UNCHANGED <<dMounted, step, isTyping, showCelebration, dPhase, dResets, dSinceReset>>
  /\ UNCHANGED notDemo

\* the inner timeout callback of handleNextStep
AgentMessageFire ==
  /\ \E i \in DOMAIN dTimers :
       /\ dTimers[i].kind = "agent"
       /\ DemoDue(i)
       /\ LET t == dTimers[i]
              last == (t.idx = Len(Steps) - 1)
              rest == IF last
                        THEN Append(RemoveAt(dTimers, i),
                                    [kind |-> "hide", left |-> CelebrationDelay \div TimeUnit,
                                     idx |-> t.idx])
                        ELSE RemoveAt(dTimers, i)
          IN /\ messages' = IF dMounted
                              THEN Append(messages, [role |-> "agent",
                                                     text |-> StepData(t.idx).agent])
                              ELSE messages
             /\ isTyping' = IF dMounted THEN FALSE ELSE isTyping
             /\ showCelebration' = IF dMounted /\ last THEN TRUE ELSE showCelebration
             /\ dTimers' = rest
             /\ dPhase' = PhaseAfter(rest)
  /\ dLate' = (dLate \/ ~dMounted)
  /\ dLast' = "agent"
  /\ UNCHANGED <<dMounted, step, dResets, dSinceReset>>
  /\ UNCHANGED notDemo

\* setTimeout(() => setShowCelebration(false), 3000)
CelebrationHideFire ==
  /\ \E i \in DOMAIN dTimers :
       /\ dTimers[i].kind = "hide"
       /\ DemoDue(i)
       /\ dTimers' = RemoveAt(dTimers, i)
       /\ dPhase' = PhaseAfter(RemoveAt(dTimers, i))
  /\ showCelebration' = IF dMounted THEN FALSE ELSE showCelebration
  /\ dLate' = (dLate \/ ~dMounted)
  /\ dLast' = "hide"
  /\ UNCHANGED <<dMounted, step, messages, isTyping, dResets, dSinceReset>>
  /\ UNCHANGED notDemo

\* one time unit passes while timeouts are pending and none is due
DemoTimePass ==
  /\ dTimers # << >>
  /\ \A i \in DOMAIN dTimers : dTimers[i].left > 0
  /\ dTimers' = [i \in DOMAIN dTimers |-> [dTimers[i] EXCEPT !.left = @ - 1]]
  /\ dPhase' = (dPhase + 1) % UserGrid
  /\ dLast' = "time"
  /\ UNCHANGED <<dMounted, step, messages, isTyping, showCelebration, dResets,
                 dSinceReset, dLate>>
  /\ UNCHANGED notDemo

\* resetDemo, called by the header button or by the restart button
ResetDemo ==
  /\ dMounted
  /\ dPhase = 0
  /\ dResets < MaxResets
  /\ step' = 0
  /\ messages' = << >>
  /\ isTyping' = FALSE
  /\ showCelebration' = FALSE
  /\ dResets' = dResets + 1
  /\ dSinceReset' = TRUE
  /\ dLast' = "reset"
  /\ UNCHANGED <<dMounted, dTimers, dPhase, dLate>>
  /\ UNCHANGED notDemo

\* unmount: the component registers no cleanup for its timeouts
UnmountDemo ==
  /\ dMounted
  /\ dPhase = 0
  /\ dMounted' = FALSE
  /\ dLast' = "unmount"
  /\ UNCHANGED <<step, messages, isTyping, showCelebration, dTimers, dPhase, dResets,
                 dSinceReset, dLate>>
  /\ UNCHANGED notDemo

DemoNext ==
  \/ HandleNextStep
  \/ UserMessageFire
  \/ AgentMessageFire
  \/ CelebrationHideFire
  \/ DemoTimePass
  \/ ResetDemo
  \/ UnmountDemo

--------------------------------------------------------------------------
\* TechSpecs with its PMLViewer and ACPViewer panels

Panels == {"pml", "luban", "acp"}

\* the three tabpanel elements: hidden={activeTab !== h} and {activeTab === c && <Viewer />}
PanelRulesTypo ==
  [pml   |-> [hiddenUnless |-> "pml",   contentIf |-> "pml"],
   luban |-> [hiddenUnless |-> "luban", contentIf |-> "pml"],
   acp   |-> [hiddenUnless |-> "acp",   contentIf |-> "acp"]]

PanelRules ==
  [pml   |-> [hiddenUnless |-> "pml",   contentIf |-> "pml"],
   luban |-> [hiddenUnless |-> "luban", contentIf |-> "luban"],
   acp   |-> [hiddenUnless |-> "acp",   contentIf |-> "acp"]]

RenderHidden(tab) == [p \in Panels |-> tab # PanelRules[p].hiddenUnless]

RenderContent(tab) == [p \in Panels |-> tab = PanelRules[p].contentIf]

\* the tag of each line of codeLines ("" for null)
CodeLineTags ==
  << "role", "persona", "persona", "persona", "persona", "",
     "capabilities", "capabilities", "capabilities", "capabilities", "",
     "memory", "memory", "memory", "memory", "role" >>

AcpNextSkip == [idle |-> "analyzing", analyzing |-> "complete", complete |-> "analyzing"]

\* transitions[state].next
AcpNext == [idle |-> "analyzing", analyzing |-> "complete", complete |-> "idle"]

\* transitions[state].json, each literal given by its status and its links
AcpJson ==
  [idle      |-> "status: idle; _links: analyze",
   analyzing |-> "status: processing; _links: cancel, status",
   complete  |-> "status: completed; result: Profit: +12%; _links: report, restart"]

\* {transitions[state].json} in the render of ACPViewer
RenderAcp(state) == IF state = "none" THEN "" ELSE AcpJson[state]

\* the states ACPViewer had before each of the latest consecutive triggers,
\* the last three at most
AcpTrail ==
  LET t == IF uLast.op = "transition" THEN Append(uLast.trail, acpState)
                                      ELSE <<acpState>>
  IN IF Len(t) > 3 THEN Tail(t) ELSE t

\* local state of a viewer after a render: fresh when it mounts, gone when it unmounts
ViewerStateAlwaysFresh(wasMounted, isMounted, current, initial) ==
  IF ~isMounted THEN "none" ELSE initial

ViewerStateKept(wasMounted, isMounted, current, initial) ==
  IF current # "none" THEN current
  ELSE IF isMounted THEN initial
  ELSE "none"

ViewerState(wasMounted, isMounted, current, initial) ==
  IF ~isMounted THEN "none"
  ELSE IF ~wasMounted THEN initial
  ELSE current

TechSpecsInit ==
  /\ activeTab = "pml"
  /\ panelHidden = RenderHidden("pml")
  /\ panelContent = RenderContent("pml")
  /\ selectedTag = "role"
  /\ acpState = "none"
  /\ acpJson = ""

\* the viewers a switch to tab unmounts in a state other than their initial one
ViewersLost(tab) ==
  { v \in {"pml", "acp"} :
      /\ panelContent[v]
      /\ ~RenderContent(tab)[v]
      /\ IF v = "pml" THEN selectedTag # "role" ELSE acpState # "idle" }

\* the viewers a switch to tab mounts again right after a switch lost their state
ViewersBack(tab) ==
  IF uLast.op = "tab" THEN { v \in uLast.lost : RenderContent(tab)[v] } ELSE {}

\* onClick={() => setActiveTab(tab)} and the render that follows
SetActiveTab(tab) ==
  /\ activeTab' = tab
  /\ panelHidden' = RenderHidden(tab)
  /\ panelContent' = RenderContent(tab)
  /\ selectedTag' = ViewerState(panelContent["pml"], RenderContent(tab)["pml"],
                                selectedTag, "role")
  /\ acpState' = ViewerState(panelContent["acp"], RenderContent(tab)["acp"],
                             acpState, "idle")
  /\ acpJson' = RenderAcp(acpState')
  /\ uLast' = [op |-> "tab", arg |-> tab, lost |-> ViewersLost(tab),
               back |-> ViewersBack(tab)]
  /\ UNCHANGED <<clipboardApi, copied, cTimers, cSince>>
  /\ UNCHANGED notUI

\* onClick={() => line.tag && setSelectedTag(line.tag)}
SelectLine(idx) ==
  /\ panelContent["pml"]
  /\ selectedTag' = IF CodeLineTags[idx] # "" THEN CodeLineTags[idx] ELSE selectedTag
  /\ uLast' = [op |-> "line", arg |-> CodeLineTags[idx]]
  /\ UNCHANGED <<activeTab, panelHidden, panelContent, acpState, acpJson,
                 clipboardApi, copied, cTimers, cSince>>
  /\ UNCHANGED notUI

\* handleAction of ACPViewer
HandleAction ==
  /\ panelContent["acp"]
  /\ acpState' = AcpNext[acpState]
  /\ acpJson' = RenderAcp(acpState')
  /\ uLast' = [op |-> "transition", arg |-> acpState, trail |-> AcpTrail]
  /\ UNCHANGED <<activeTab, panelHidden, panelContent, selectedTag,
                 clipboardApi, copied, cTimers, cSince>>
  /\ UNCHANGED notUI

TabClick == \E tab \in Panels : SetActiveTab(tab)

LineClick == \E idx \in DOMAIN CodeLineTags : SelectLine(idx)

--------------------------------------------------------------------------
\* BibTeXSection.  Time is counted in units of CopyDelay / CopySlices ms.

\* setTimeout(() => setCopied(false), 2000)
CopyDelay == 2000

BibTeXInit ==
  /\ clipboardApi \in {"available", "unavailable"}
  /\ copied = FALSE
  /\ cTimers = << >>
  /\ cSince = -1
  /\ uLast = [op |-> "init", arg |-> ""]

HandleCopyOnSuccess(outcome) ==
  /\ Len(cTimers) < MaxPendingCopies
  /\ IF clipboardApi = "unavailable" \/ outcome = "rejected"
       THEN UNCHANGED <<copied, cTimers>>
       ELSE /\ copied' = TRUE
            /\ cTimers' = Append(cTimers, CopySlices)
  /\ cSince' = 0
  /\ uLast' = [op |-> "copy", arg |-> IF clipboardApi = "unavailable"
                                        THEN "threw" ELSE outcome]
  /\ UNCHANGED <<activeTab, panelHidden, panelContent, selectedTag, acpState, acpJson,
                 clipboardApi>>
  /\ UNCHANGED notUI

\* handleCopy; where navigator.clipboard is undefined the first statement
\* throws and the handler ends there.  The promise returned by writeText is
\* dropped, so its outcome changes nothing.
HandleCopy(outcome) ==
  /\ Len(cTimers) < MaxPendingCopies
  /\ IF clipboardApi = "unavailable"
       THEN UNCHANGED <<copied, cTimers>>
       ELSE /\ copied' = TRUE
            /\ cTimers' = Append(cTimers, CopySlices)
  /\ cSince' = 0
  /\ uLast' = [op |-> "copy", arg |-> IF clipboardApi = "unavailable"
                                        THEN "threw" ELSE outcome]
  /\ UNCHANGED <<activeTab, panelHidden, panelContent, selectedTag, acpState, acpJson,
                 clipboardApi>>
  /\ UNCHANGED notUI

CopyClick == \E outcome \in {"resolved", "rejected"} : HandleCopy(outcome)

\* one time unit passes while a timeout is pending and none is due
CopyTimePass ==
  /\ cTimers # << >>
  /\ \A i \in DOMAIN cTimers : cTimers[i] > 0
  /\ cTimers' = [i \in DOMAIN cTimers |-> cTimers[i] - 1]
  /\ cSince' = IF cSince < CopySlices THEN cSince + 1 ELSE cSince
  /\ uLast' = [op |-> "time", arg |-> ""]
  /\ UNCHANGED <<activeTab, panelHidden, panelContent, selectedTag, acpState, acpJson,
                 clipboardApi, copied>>
  /\ UNCHANGED notUI

\* () => setCopied(false)
CopyTimeoutFire ==
  /\ cTimers # << >>
  /\ Head(cTimers) = 0
  /\ copied' = FALSE
  /\ cTimers' = Tail(cTimers)
  /\ uLast' = [op |-> "uncopy", arg |-> ""]
  /\ UNCHANGED <<activeTab, panelHidden, panelContent, selectedTag, acpState, acpJson,
                 clipboardApi, cSince>>
  /\ UNCHANGED notUI

UINext ==
  \/ TabClick
  \/ LineClick
  \/ HandleAction
  \/ CopyClick
  \/ CopyTimePass
  \/ CopyTimeoutFire

--------------------------------------------------------------------------
\* App, the root shell: navigation, mobile menu, paper modal, scroll handling.
\* The scroll position is kept as the place scrolled to, the top of the page
\* or a section; every section lies below the full-height hero header, so
\* window.scrollY > 50 holds exactly when the window is at a section.

\* the elements that carry an id
DomIds == {"overview", "architecture", "specs", "demo", "memory", "impact", "team"}

\* the identifiers the links pass to scrollToSection
LinkIds == {"overview", "architecture", "specs", "demo", "impact", "team"}

\* scrollToSection takes any string: the links' identifiers and one that no
\* element carries
ScrollArgs == LinkIds \cup {"references"}

\* document.getElementById(id), "null" for null
GetElementById(id) == IF id \in DomIds THEN id ELSE "null"

\* window.scrollY > 50
Scrolled(pos) == pos # "top"

AppInit ==
  /\ scrolled = FALSE
  /\ menuOpen = FALSE
  /\ isPaperOpen = FALSE
  /\ scrollPos = "top"
  /\ scrollEvent = FALSE
  /\ aLast = [op |-> "init", arg |-> "", threw |-> FALSE]

\* window.scrollTo(...): the window moves and, when it moved, a scroll event follows
WindowScrollTo(pos) ==
  /\ scrollPos' = pos
  /\ scrollEvent' = (scrollEvent \/ pos # scrollPos)

ScrollToSectionNoGuard(id) ==
  /\ menuOpen' = FALSE
  /\ LET element == GetElementById(id)
     IN /\ IF element # "null"
             THEN WindowScrollTo(element)
             ELSE UNCHANGED <<scrollPos, scrollEvent>>
        /\ aLast' = [op |-> "scrollTo", arg |-> id, threw |-> (element = "null"),
                     menu |-> menuOpen]
  /\ UNCHANGED <<scrolled, isPaperOpen>>
  /\ UNCHANGED notApp

\* scrollToSection(id)(e)
ScrollToSection(id) ==
  /\ menuOpen' = FALSE
  /\ LET element == GetElementById(id)
     IN IF element # "null"
          THEN WindowScrollTo(element)
          ELSE UNCHANGED <<scrollPos, scrollEvent>>
  /\ aLast' = [op |-> "scrollTo", arg |-> id, threw |-> FALSE, menu |-> menuOpen]
  /\ UNCHANGED <<scrolled, isPaperOpen>>
  /\ UNCHANGED notApp

ScrollClick == \E id \in ScrollArgs : ScrollToSection(id)

\* onClick={() => window.scrollTo({ top: 0, behavior: 'smooth' })}: logo and
\* scroll-to-top button
ScrollTopClick ==
  /\ WindowScrollTo("top")
  /\ aLast' = [op |-> "scrollTop", arg |-> "", threw |-> FALSE]
  /\ UNCHANGED <<scrolled, menuOpen, isPaperOpen>>
  /\ UNCHANGED notApp

\* the user scrolls the page by hand
UserScroll ==
  /\ \E pos \in {"top"} \cup DomIds :
       /\ pos # scrollPos
       /\ WindowScrollTo(pos)
  /\ aLast' = [op |-> "userScroll", arg |-> "", threw |-> FALSE]
  /\ UNCHANGED <<scrolled, menuOpen, isPaperOpen>>
  /\ UNCHANGED notApp

\* handleScroll, the scroll listener
HandleScroll ==
  /\ scrollEvent
  /\ scrolled' = Scrolled(scrollPos)
  /\ scrollEvent' = FALSE
  /\ aLast' = [op |-> "scroll", arg |-> "", threw |-> FALSE]
  /\ UNCHANGED <<menuOpen, isPaperOpen, scrollPos>>
  /\ UNCHANGED notApp

\* onClick={() => setMenuOpen(!menuOpen)}
MenuToggle ==
  /\ menuOpen' = ~menuOpen
  /\ aLast' = [op |-> "menu", arg |-> "", threw |-> FALSE]
  /\ UNCHANGED <<scrolled, isPaperOpen, scrollPos, scrollEvent>>
  /\ UNCHANGED notApp

\* the GitHub link of the mobile menu, rendered while menuOpen:
\* onClick={() => setMenuOpen(false)}
MenuGithubClick ==
  /\ menuOpen
  /\ menuOpen' = FALSE
  /\ aLast' = [op |-> "github", arg |-> "", threw |-> FALSE]
  /\ UNCHANGED <<scrolled, isPaperOpen, scrollPos, scrollEvent>>
  /\ UNCHANGED notApp

\* onClick={() => setIsPaperOpen(true)}
OpenPaper ==
  /\ isPaperOpen' = TRUE
  /\ aLast' = [op |-> "openPaper", arg |-> "", threw |-> FALSE]
  /\ UNCHANGED <<scrolled, menuOpen, scrollPos, scrollEvent>>
  /\ UNCHANGED notApp

\* onClose={() => setIsPaperOpen(false)}: the modal renders only while isOpen
ClosePaper ==
  /\ isPaperOpen
  /\ isPaperOpen' = FALSE
  /\ aLast' = [op |-> "closePaper", arg |-> "", threw |-> FALSE]
  /\ UNCHANGED <<scrolled, menuOpen, scrollPos, scrollEvent>>
  /\ UNCHANGED notApp

AppNext ==
  \/ ScrollClick
  \/ ScrollTopClick
  \/ UserScroll
  \/ HandleScroll
  \/ MenuToggle
  \/ MenuGithubClick
  \/ OpenPaper
  \/ ClosePaper

--------------------------------------------------------------------------
\* highlightPML.  A string is a sequence of one-character strings; a span is
\* its className and its text.

\* longest text, besides the lines of the code sample, given to highlightPML
MaxTextLen == 3

\* [\w_]
WordChars ==
  {"a", "b", "c", "d", "e", "f", "g", "h", "i", "j", "k", "l", "m",
   "n", "o", "p", "q", "r", "s", "t", "u", "v", "w", "x", "y", "z",
   "A", "B", "C", "D", "E", "F", "G", "H", "I", "J", "K", "L", "M",
   "N", "O", "P", "Q", "R", "S", "T", "U", "V", "W", "X", "Y", "Z",
   "0", "1", "2", "3", "4", "5", "6", "7", "8", "9", "_"}

\* \s
SpaceChars == {" ", "\t", "\n", "\r"}

\* codeLines[i].text
CodeLineTexts ==
  << <<"<", "r", "o", "l", "e", " ", "n", "a", "m", "e", "=", "\"", "I",
       "n", "v", "e", "s", "t", "m", "e", "n", "t", "_", "B", "a", "n",
       "k", "e", "r", "\"", ">">>,
     <<"<", "p", "e", "r", "s", "o", "n", "a", ">">>,
     <<"<", "t", "r", "a", "i", "t", ">", "A", "n", "a", "l", "y", "t",
       "i", "c", "a", "l", "<", "/", "t", "r", "a", "i", "t", ">">>,
     <<"<", "t", "r", "a", "i", "t", ">", "R", "i", "s", "k", "-", "A",
       "w", "a", "r", "e", "<", "/", "t", "r", "a", "i", "t", ">">>,
     <<"<", "/", "p", "e", "r", "s", "o", "n", "a", ">">>,
     << >>,
     <<"<", "c", "a", "p", "a", "b", "i", "l", "i", "t", "i", "e", "s",
       ">">>,
     <<"<", "u", "s", "e", "_", "t", "o", "o", "l", " ", "n", "a", "m",
       "e", "=", "\"", "m", "a", "r", "k", "e", "t", "_", "d", "a", "t",
       "a", "_", "a", "p", "i", "\"", " ", "/", ">">>,
     <<"<", "p", "e", "r", "m", "i", "s", "s", "i", "o", "n", " ", "l",
       "e", "v", "e", "l", "=", "\"", "r", "e", "a", "d", "_", "o", "n",
       "l", "y", "\"", " ", "/", ">">>,
     <<"<", "/", "c", "a", "p", "a", "b", "i", "l", "i", "t", "i", "e",
       "s", ">">>,
     << >>,
     <<"<", "m", "e", "m", "o", "r", "y", "_", "p", "o", "l", "i", "c",
       "y", ">">>,
     <<"<", "s", "t", "r", "a", "t", "e", "g", "y", ">", "A", "c", "t",
       "i", "v", "a", "t", "i", "o", "n", "D", "i", "f", "f", "u", "s",
       "i", "o", "n", "<", "/", "s", "t", "r", "a", "t", "e", "g", "y",
       ">">>,
     <<"<", "r", "e", "t", "e", "n", "t", "i", "o", "n", ">", "L", "o",
       "n", "g", "T", "e", "r", "m", "<", "/", "r", "e", "t", "e", "n",
       "t", "i", "o", "n", ">">>,
     <<"<", "/", "m", "e", "m", "o", "r", "y", "_", "p", "o", "l", "i",
       "c", "y", ">">>,
     <<"<", "/", "r", "o", "l", "e", ">">> >>

Matches(c, class) ==
  CASE class = "word"     -> c \in WordChars
    [] class = "space"    -> c \in SpaceChars
    [] class = "notquote" -> c # "\""
    [] class = "notlt"    -> c # "<"

\* the character at index i (from 1), "" outside the string
At(s, i) == IF i \in 1 .. Len(s) THEN s[i] ELSE ""

\* length of the longest run of characters of a class that starts at index i
RECURSIVE RunLen(_, _, _)
RunLen(s, i, class) ==
  IF i <= Len(s) /\ Matches(s[i], class) THEN 1 + RunLen(s, i + 1, class) ELSE 0

\* \s+[\w_]+="[^"]*" at index i: the index after the match, 0 without a match
AttrEnd(s, i) ==
  LET sp == RunLen(s, i, "space")
      w == RunLen(s, i + sp, "word")
      k == i + sp + w
      e == k + 2 + RunLen(s, k + 2, "notquote")
  IN IF sp >= 1 /\ w >= 1 /\ At(s, k) = "=" /\ At(s, k + 1) = "\"" /\ At(s, e) = "\""
       THEN e + 1
       ELSE 0

\* (?:\s+[\w_]+="[^"]*")* at index i: the index after the last attribute
RECURSIVE AttrsEnd(_, _)
AttrsEnd(s, i) ==
  IF AttrEnd(s, i) = 0 THEN i ELSE AttrsEnd(s, AttrEnd(s, i))

\* remaining.match(/^(<\/?)([\w_]+)((?:\s+[\w_]+="[^"]*")*)\s*(\/?>)/)
TagMatch(s) ==
  LET b == IF At(s, 2) = "/" THEN 2 ELSE 1
      a0 == b + 1 + RunLen(s, b + 1, "word")
      a1 == AttrsEnd(s, a0)
      c == a1 + RunLen(s, a1, "space")
      cl == IF At(s, c) = "/" /\ At(s, c + 1) = ">" THEN 2
            ELSE IF At(s, c) = ">" THEN 1
            ELSE 0
  IN IF At(s, 1) = "<" /\ a0 > b + 1 /\ cl > 0
       THEN [ok |-> TRUE,
             full |-> SubSeq(s, 1, c + cl - 1),
             bracket |-> SubSeq(s, 1, b),
             tagName |-> SubSeq(s, b + 1, a0 - 1),
             attrs |-> SubSeq(s, a0, a1 - 1),
             closeBracket |-> SubSeq(s, c, c + cl - 1)]
       ELSE [ok |-> FALSE]

\* /([\w_]+)="([^"]*)"/ matched at index p
AttrAt(s, p) ==
  LET w == RunLen(s, p, "word")
      e == p + w + 2 + RunLen(s, p + w + 2, "notquote")
  IN IF w >= 1 /\ At(s, p + w) = "=" /\ At(s, p + w + 1) = "\"" /\ At(s, e) = "\""
       THEN [ok |-> TRUE,
             all |-> SubSeq(s, p, e),
             attrName |-> SubSeq(s, p, p + w - 1),
             attrValue |-> SubSeq(s, p + w + 2, e - 1),
             lastIndex |-> e + 1]
       ELSE [ok |-> FALSE]

\* attrRegex.exec(attrs) with the search starting at index p
RECURSIVE AttrExec(_, _)
AttrExec(s, p) ==
  IF p > Len(s) THEN [ok |-> FALSE]
  ELSE IF AttrAt(s, p).ok THEN AttrAt(s, p)
  ELSE AttrExec(s, p + 1)

\* str.indexOf(sub), searched from offset i: offsets count from 0, -1 when absent
RECURSIVE IndexOfFrom(_, _, _)
IndexOfFrom(str, sub, i) ==
  IF i + Len(sub) > Len(str) THEN -1
  ELSE IF SubSeq(str, i + 1, i + Len(sub)) = sub THEN i
  ELSE IndexOfFrom(str, sub, i + 1)

IndexOf(str, sub) == IndexOfFrom(str, sub, 0)

\* str.slice(from)
SliceFrom(str, from) == SubSeq(str, from + 1, Len(str))

Span(className, text) == [className |-> className, text |-> text]

\* the spans pushed for one attribute match m, attrStr being the rest of attrs
AttrSpans(attrStr, m) ==
  LET beforeAttr == IndexOf(attrStr, m.all)
  IN (IF beforeAttr > 0
        THEN << Span("text-stone-500", SubSeq(attrStr, 1, beforeAttr)) >>
        ELSE << >>)
     \o << Span("text-stone-500", << " " >>),
           Span("text-sky-400", m.attrName),
           Span("text-stone-500", << "=" >>),
           Span("text-amber-400", << "\"" >> \o m.attrValue \o << "\"" >>) >>

\* while ((attrMatch = attrRegex.exec(attrs)) !== null)
RECURSIVE AttrLoop(_, _, _, _)
AttrLoop(attrs, lastIndex, attrStr, parts) ==
  IF ~AttrExec(attrs, lastIndex).ok THEN parts
  ELSE \* the match is bound once, then used
       CHOOSE r \in
         { AttrLoop(attrs, m.lastIndex,
                    SliceFrom(attrStr, IndexOf(attrStr, m.all) + Len(m.all)),
                    parts \o AttrSpans(attrStr, m))
             : m \in {AttrExec(attrs, lastIndex)} } : TRUE

\* one iteration of while (remaining.length > 0): [remaining, parts] after it
HighlightStep(remaining, parts) ==
  IF TagMatch(remaining).ok
    THEN CHOOSE r \in
           { [remaining |-> SliceFrom(remaining, Len(m.full)),
              parts |-> AttrLoop(m.attrs, 1, m.attrs,
                                 parts \o << Span("text-stone-500", m.bracket),
                                             Span("text-pink-400", m.tagName) >>)
                        \o << Span("text-stone-500", m.closeBracket) >>]
               : m \in {TagMatch(remaining)} } : TRUE
  ELSE IF RunLen(remaining, 1, "notlt") >= 1
    THEN [remaining |-> SliceFrom(remaining, RunLen(remaining, 1, "notlt")),
          parts |-> Append(parts, Span("text-emerald-400",
                                       SubSeq(remaining, 1, RunLen(remaining, 1, "notlt"))))]
  ELSE [remaining |-> SliceFrom(remaining, 1),
        parts |-> Append(parts, Span("text-stone-300", << remaining[1] >>))]

RECURSIVE HighlightLoop(_)
HighlightLoop(st) ==
  IF Len(st.remaining) > 0
    THEN CHOOSE r \in { HighlightLoop(n) : n \in {HighlightStep(st.remaining, st.parts)} } : TRUE
    ELSE st.parts

\* highlightPML(text): the spans of the returned fragment
HighlightPML(text) == HighlightLoop([remaining |-> text, parts |-> << >>])

\* the characters a text given to highlightPML is made of, besides the sample
TextAlphabet == {"<", "/", ">", "a", " "}

Texts == UNION { [1 .. n -> TextAlphabet] : n \in 1 .. MaxTextLen }

HighlightInit ==
  /\ hText = << >>
  /\ hParts = << >>

HighlightCall(text) ==
  /\ hText' = text
  /\ hParts' = HighlightPML(text)
  /\ UNCHANGED notHighlight

\* {line.text ? highlightPML(line.text) : ' '} in the render of PMLViewer
RenderCodeLine ==
  \E i \in DOMAIN CodeLineTexts :
    /\ CodeLineTexts[i] # << >>
    /\ HighlightCall(CodeLineTexts[i])

\* highlightPML applied to another text
HighlightText == \E text \in Texts : HighlightCall(text)

HighlightNext ==
  \/ RenderCodeLine
  \/ HighlightText

--------------------------------------------------------------------------
\* AnimatedCounter.  A value of count and of start is [n, below]: n increments
\* have been added, which is exactly n * value / (duration * 60); below says
\* that floating-point rounding has left the sum just under that.  The
\* rounding matters only where the exact sum equals value.

\* duration * 60, the duration counted in half seconds
FramesPerHalfSecond == 30

\* <AnimatedCounter value={...} duration={...} /> in ImpactMetrics
Counters ==
  { [value |-> 50000, halfSeconds |-> 4],
    [value |-> 2,     halfSeconds |-> 2],
    [value |-> 30,    halfSeconds |-> 3] }

\* end / increment
Frames(c) == c.halfSeconds * FramesPerHalfSecond

Exactly(n) == [n |-> n, below |-> FALSE]

\* const end = value, as a value of count
End(c) == Exactly(Frames(c))

ReachedEndLate(c, s) == s.n > Frames(c) + 1

\* start >= end
ReachedEnd(c, s) == s.n > Frames(c) \/ (s.n = Frames(c) /\ ~s.below)

\* a <= b for values of count
AtMost(a, b) == a.n < b.n \/ (a.n = b.n /\ (a.below \/ ~b.below))

CounterInit ==
  /\ counter = "none"
  /\ isInView = FALSE
  /\ count = Exactly(0)
  /\ start = Exactly(0)
  /\ timer = FALSE
  /\ kMounted = TRUE
  /\ kLast = "init"

\* the counter comes into view: the effect runs and starts the interval
ComeIntoView ==
  /\ kMounted
  /\ ~isInView
  /\ counter' \in Counters
  /\ isInView' = TRUE
  /\ start' = Exactly(0)
  /\ timer' = TRUE
  /\ kLast' = "view"
  /\ UNCHANGED <<count, kMounted>>
  /\ UNCHANGED notCounter

\* the callback of the interval: start += increment, rounded either way
CounterTick ==
  /\ timer
  /\ \E below \in BOOLEAN :
       /\ below => start.n + 1 = Frames(counter)
       /\ start' = [n |-> start.n + 1, below |-> below]
  /\ IF ReachedEnd(counter, start')
       THEN /\ count' = End(counter)
            /\ timer' = FALSE
       ELSE /\ count' = start'
            /\ timer' = timer
  /\ kLast' = "tick"
  /\ UNCHANGED <<counter, isInView, kMounted>>
  /\ UNCHANGED notCounter

\* the cleanup function of the effect
UnmountCounter ==
  /\ kMounted
  /\ kMounted' = FALSE
  /\ timer' = FALSE
  /\ kLast' = "unmount"
  /\ UNCHANGED <<counter, isInView, count, start>>
  /\ UNCHANGED notCounter

CounterNext ==
  \/ ComeIntoView
  \/ CounterTick
  \/ UnmountCounter

--------------------------------------------------------------------------
Init ==
  /\ EngramInit
  /\ DiagramInit
  /\ DemoInit
  /\ TechSpecsInit
  /\ BibTeXInit
  /\ AppInit
  /\ HighlightInit
  /\ CounterInit

\* a page that does not mount EngramNetwork3D
EngramNotMounted ==
  /\ eMounted = FALSE
  /\ activations = EmptyMap
  /\ pulseWaves = << >>
  /\ decayIntervalRef = 0
  /\ spreadTimeoutsRef = << >>
  /\ pulseCleanupRef = 0
  /\ eTimers = {}
  /\ eNextId = 1
  /\ eClock = 0
  /\ eClicks = 0
  /\ eClicked = << >>
  /\ eTicks = 0
  /\ eTrack = EmptyMap
  /\ eLate = FALSE
  /\ eLast = NoEvent

\* a page that does not mount MemoryActivationDiagram
DiagramNotMounted ==
  /\ mMounted = FALSE
  /\ nodes2D = [n \in NodeIds2D |-> 0]
  /\ mInterval = FALSE
  /\ mClicks = 0
  /\ mTicks = 0
  /\ mLog = << >>
  /\ mLast = [op |-> "init", node |-> 0]

\* a page mounts one of the two activation animations: App mounts
\* MemoryActivationDiagram, EngramNetwork3D is exported for another host
InitOneAnimation ==
  /\ \/ EngramInit /\ DiagramNotMounted
     \/ EngramNotMounted /\ DiagramInit
  /\ DemoInit
  /\ TechSpecsInit
  /\ BibTeXInit
  /\ AppInit
  /\ HighlightInit
  /\ CounterInit
  /\ clipboardApi = "available"

AnimationsNext ==
  \/ EngramClick
  \/ SpreadFire
  \/ DecayTick
  \/ PulseCleanup
  \/ Unmount3D
  \/ DiagramClick
  \/ DiffusionFire
  \/ Unmount2D

\* each widget is explored on a page whose clipboard API exists; SpecUI also
\* explores the page without it
InitWithClipboard ==
  /\ Init
  /\ clipboardApi = "available"

SpecEngram == InitWithClipboard /\ [][EngramNext]_vars

\* the browser runs every timer callback that is due
SpecEngramLive ==
  /\ InitWithClipboard
  /\ [][EngramLiveNext]_vars
  /\ WF_vars(SpreadFire \/ DecayTick \/ PulseCleanup)

SpecAnimations == InitOneAnimation /\ [][AnimationsNext]_vars

SpecDiagram == InitWithClipboard /\ [][DiagramNext]_vars

\* the browser runs the callback of the diffusion interval every 100 ms
SpecDiagramLive ==
  /\ InitWithClipboard
  /\ [][DiagramLiveNext]_vars
  /\ WF_vars(DiffusionFire)

SpecDemo == InitWithClipboard /\ [][DemoNext]_vars

SpecUI == Init /\ [][UINext]_vars

SpecApp == InitWithClipboard /\ [][AppNext]_vars

SpecHighlight == InitWithClipboard /\ [][HighlightNext]_vars

\* the browser runs the callback of the counter's interval every 1/60 s
SpecCounterLive ==
  /\ InitWithClipboard
  /\ [][CounterNext]_vars
  /\ WF_vars(CounterTick)

\* a node click of the diagram, as explored in the whole page
PageDiagramClick == \E id \in 0 .. PageNodes - 1 : ActivateNode(id)

\* the handlers the user can trigger in the widgets App mounts, interleaved
\* over the whole page, taken before any timer callback runs
PageNext ==
  \/ TabClick
  \/ LineClick
  \/ HandleAction
  \/ HandleNextStep
  \/ ResetDemo
  \/ PageDiagramClick
  \/ CopyClick
  \/ MenuToggle
  \/ OpenPaper
  \/ ClosePaper

SpecPage == InitWithClipboard /\ [][PageNext]_vars

--------------------------------------------------------------------------
\* Properties of EngramNetwork3D

TimersOfKind(k) == { t \in eTimers : t.kind = k }

EngramStepped(op) == eLast'.op = op /\ eLast' # eLast

\* C1: every handleActivate cancels the timers left by earlier activations
\* before scheduling new ones: at most one decay interval and at most one
\* pulse-cleanup timeout are scheduled, and every scheduled timer (spread
\* timeouts included) was scheduled for the latest click, so no spread
\* callback of an earlier click can fire after a later click.
C1_OnlyTimersOfLatestClick ==
  /\ Cardinality(TimersOfKind("decay")) <= 1
  /\ Cardinality(TimersOfKind("pulse")) <= 1
  /\ \A t \in eTimers : t.click = eClicks

\* a second click that found a decay interval, a pulse cleanup and at least
\* one spread timeout pending, and cancelled them
C1_Witness ==
  /\ eLast.op = "click"
  /\ eClicks >= 2
  /\ eLast.cancelled >= 3
  /\ TimersOfKind("spread") # {}

\* C2 (as claimed): once a node is clicked, at every decay tick its activation
\* is strictly lower than at the previous tick (or at its click), as long as it
\* is in the active set and is not clicked again.
C2_LowerThanAtPreviousTick ==
  [][ EngramStepped("tick") =>
        \A n \in DOMAIN eTrack :
          n \in DOMAIN activations' => activations'[n] < eTrack[n] ]_vars

\* C2 (amended): a click sets the node's activation to 1; every decay tick
\* leaves a clicked node either with a strictly lower activation than it had
\* just before that tick, or, when the decayed value is at or below the floor
\* 0.05, removed from the active set.
C2_TickLowersOrRemoves ==
  [][ /\ EngramStepped("click") => activations'[eLast'.node] = One
      /\ EngramStepped("tick") =>
           \A n \in DOMAIN eTrack :
             IF n \in DOMAIN activations'
               THEN activations'[n] < activations[n] /\ activations'[n] > Floor3D
               ELSE activations[n] * DecayPct <= Floor3D * 100 + 99 ]_vars

\* the tick on which the last active node fell to the floor and was removed
C2_Witness ==
  /\ eLast.op = "tick"
  /\ eLast.cancelled = 1
  /\ eClicks >= 1
  /\ DOMAIN activations = {}
  /\ DOMAIN eTrack = {}

\* C3: a spread step leaves a neighbor's activation unchanged when the
\* transfer value 0.65 x strength is less than or equal to the neighbor's
\* current activation, and overwrites it with the transfer value only when
\* the transfer value is strictly greater.
C3_SpreadOverwritesOnlyWhenGreater ==
  [][ EngramStepped("spread") =>
        \A i \in 1 .. Len(Edges3D) :
          LET e == Edges3D[i]
              src == eLast'.node
              nb == IF e.source = src THEN e.target ELSE e.source
              transfer == (eLast'.strength * 65) \div 100
          IN (e.source = src \/ e.target = src) =>
               IF transfer <= MapGet(activations, nb)
                 THEN /\ MapGet(activations', nb) = MapGet(activations, nb)
                      /\ (nb \in DOMAIN activations') = (nb \in DOMAIN activations)
                 ELSE /\ nb \in DOMAIN activations'
                      /\ activations'[nb] = transfer ]_vars

\* a spread step that raised some neighbors and left another, holding a
\* higher activation, unchanged
C3_Witness ==
  /\ eLast.op = "spread"
  /\ eLast.raised > 0
  /\ eLast.raised < Len(ConnectedEdges(eLast.node))

\* C24: during spreading a pulse wave is added for a neighbor only when the
\* step activated that neighbor, that is, raised the neighbor's activation to
\* the transfer value.
C24_PulseOnlyForRaisedNeighbor ==
  [][ EngramStepped("spread") =>
        \A i \in Len(pulseWaves) + 1 .. Len(pulseWaves') :
          LET nb == pulseWaves'[i].origin
              transfer == TransferStrength(eLast'.strength)
          IN /\ MapGet(activations, nb) < transfer
             /\ MapGet(activations', nb) = transfer ]_vars

\* C7: when EngramNetwork3D unmounts, the decay interval, every pending
\* spread timeout and the pulse-cleanup timeout are cleared: no timer of the
\* widget is scheduled after unmount and no timer callback has run.
C7_NoTimerAfterUnmount ==
  ~eMounted => (eTimers = {} /\ ~eLate)

\* an unmount that cleared a decay interval, a pulse cleanup and spread timeouts
C7_Witness ==
  /\ ~eMounted
  /\ eLast.op = "unmount"
  /\ eLast.cancelled >= 3

\* C11: each tick of the decay interval multiplies every active node's
\* activation by 0.96 and drops the node when the new value is at or below
\* 0.05; the interval stays scheduled while a node is active and cancels
\* itself on the tick that leaves none; after a click every node eventually
\* leaves the active set and no decay interval remains scheduled.
C11_DecayRunsUntilNoNodeActive ==
  /\ [][ (EngramStepped("tick") /\ eMounted) =>
            /\ DOMAIN activations' \subseteq DOMAIN activations
            /\ \A n \in DOMAIN activations :
                 LET newValue == (activations[n] * 96) \div 100
                 IN IF newValue > 50000
                      THEN n \in DOMAIN activations' /\ activations'[n] = newValue
                      ELSE n \notin DOMAIN activations'
            /\ (TimersOfKind("decay")' = {}) = (DOMAIN activations' = {}) ]_vars
  /\ []((eMounted /\ DOMAIN activations # {}) => TimersOfKind("decay") # {})
  /\ (eMounted /\ eLast.op = "click") ~>
        (~eMounted \/ (DOMAIN activations = {} /\ TimersOfKind("decay") = {}))

\* after the last click explored, the interval has cancelled itself on the
\* tick that removed the last active node
C11_Witness ==
  /\ eMounted
  /\ eClicks = MaxClicks
  /\ eLast.op = "tick"
  /\ eLast.cancelled = 1
  /\ DOMAIN activations = {}
  /\ TimersOfKind("decay") = {}
  /\ decayIntervalRef = 0

--------------------------------------------------------------------------
\* Properties of MemoryActivationDiagram

FirstTickAfterClick == mLast.op = "click" /\ mLast'.op = "tick"

DisplayMin2D == 10000

\* C22: from rest, a single click on the Query node (0) eventually brings
\* Index Optimization (node 4) above the display threshold 0.1.
C22_QueryClickActivatesIndexOptimization ==
  (mMounted /\ mLast.op = "click" /\ mLast.node = 0 /\ mClicks = 1)
    ~> (~mMounted \/ mClicks > 1 \/ nodes2D[4] > DisplayMin2D)

AllAtRest == \A n \in DOMAIN nodes2D : nodes2D[n] = 0

\* C23: once clicks stop, every node's activation eventually returns to 0
\* and stays there, and each later tick leaves the node state unchanged.
C23_ReturnsToRestAndStaysThere ==
  /\ <>[](~mMounted \/ AllAtRest)
  /\ [][ (AllAtRest /\ mLast'.op = "tick") => nodes2D' = nodes2D ]_vars

\* the diagram at rest after the last click explored, ticks still running
C23_Witness ==
  /\ mMounted
  /\ mInterval
  /\ mClicks = MaxClicks
  /\ mLast.op = "tick"
  /\ AllAtRest

\* the value 0.65^d, truncated as the products are
RECURSIVE Offered(_)
Offered(d) == IF d = 0 THEN 1000000 ELSE (Offered(d - 1) * 65) \div 100

\* C17 (as claimed): the value offered to a neighbor in a spread step equals
\* the source node's activation at the time the step runs multiplied by 0.65
\* (the neighbor takes the offered value when it is above its own).
C17_OfferIsSourceActivationTimesFactor ==
  [][ EngramStepped("spread") =>
        \A i \in 1 .. Len(Edges3D) :
          LET e == Edges3D[i]
              src == eLast'.node
              nb == IF e.source = src THEN e.target ELSE e.source
              offered == (MapGet(activations, src) * 65) \div 100
          IN (e.source = src \/ e.target = src) =>
               MapGet(activations', nb) =
                 (IF offered > MapGet(activations, nb) THEN offered
                                                      ELSE MapGet(activations, nb)) ]_vars

\* C17 (amended): the value offered to a neighbor in a spread step at depth d
\* is the strength the step was scheduled with multiplied by 0.65, that is
\* 0.65^d (1 for the clicked node, the value offered to the source
\* otherwise), whatever the source's activation is when the step runs.
C17_OfferIsScheduledStrengthTimesFactor ==
  [][ EngramStepped("spread") =>
        \A i \in 1 .. Len(Edges3D) :
          LET e == Edges3D[i]
              src == eLast'.node
              nb == IF e.source = src THEN e.target ELSE e.source
              offered == Offered(eLast'.depth)
          IN (e.source = src \/ e.target = src) =>
               MapGet(activations', nb) =
                 (IF offered > MapGet(activations, nb) THEN offered
                                                      ELSE MapGet(activations, nb)) ]_vars

\* a spread step at depth 2 that raised a neighbor to 0.65^2 from a source
\* whose activation had decayed below the 0.65 it was offered
C17_Witness ==
  /\ eLast.op = "spread"
  /\ eLast.depth = 2
  /\ eLast.raised > 0
  /\ MapGet(activations, eLast.node) < 650000
  /\ \E n \in DOMAIN activations : activations[n] = 422500

\* C18 (as claimed): propagation reaches the nodes at hop distance d
\* (1 <= d <= 3) from the clicked node d x 350 ms after the click.
C18_StepAtDepthTimesDelay ==
  [][ EngramStepped("spread") =>
        eClock' = eClicked[eLast'.click].at + eLast'.depth * 350 ]_vars

\* C18 (amended): the spread step of depth d runs 350 x d ms after the step
\* that scheduled it (the click for d = 1), so propagation reaches hop
\* distance d at 350 x d(d+1)/2 ms after the click: 350, 1050 and 2100 ms.
C18_StepAtCumulatedDelay ==
  [][ EngramStepped("spread") =>
        /\ eLast'.depth \in 1 .. 3
        /\ eClock' = eClicked[eLast'.click].at
                       + (350 * eLast'.depth * (eLast'.depth + 1)) \div 2
        /\ \A t \in eTimers' \ eTimers :
              t.kind = "spread" =>
                (t.depth = eLast'.depth + 1 /\ t.due = eClock' + 350 * t.depth) ]_vars

\* a spread step of depth 3, run 2100 ms after its click
C18_Witness ==
  /\ eLast.op = "spread"
  /\ eLast.depth = 3
  /\ eClicks >= 1
  /\ eClock = eClicked[eLast.click].at + 2100

Neighbors3D(n) ==
  { Edges3D[i].target : i \in { j \in DOMAIN Edges3D : Edges3D[j].source = n } }
  \cup { Edges3D[i].source : i \in { j \in DOMAIN Edges3D : Edges3D[j].target = n } }

\* the nodes within k hops of node c
RECURSIVE WithinHops(_, _)
WithinHops(c, k) ==
  IF k = 0 THEN {c}
  ELSE LET w == WithinHops(c, k - 1)
       IN w \cup UNION { Neighbors3D(n) : n \in w }

\* C19: after a click no spread step is scheduled with depth > 3 or with
\* strength < 0.1, only nodes within 3 hops of the clicked node receive
\* propagated activation, and one click schedules finitely many spread
\* timeouts (at most 1 + 3 + 3 x 3 in a graph of degree 3), the last of them
\* due 2100 ms after the click, so spreading terminates.
C19_SpreadingIsDepthBounded ==
  /\ [](\A t \in TimersOfKind("spread") :
          /\ t.depth <= 3
          /\ t.strength >= 100000
          /\ t.due <= eClicked[t.click].at + 2100)
  /\ [](Len(spreadTimeoutsRef) <= 1 + 3 + 3 * 3)
  /\ [][ EngramStepped("spread") =>
            /\ eLast'.depth <= 3
            /\ \A n \in NodeIds3D :
                 MapGet(activations', n) # MapGet(activations, n) =>
                   n \in WithinHops(eClicked[eLast'.click].node, eLast'.depth) ]_vars

\* the spreading started by a click on node 5 has ended: its last step ran at
\* depth 3, no spread timeout is left and node 3, four hops away, was not reached
C19_Witness ==
  /\ eClicks = 1
  /\ eClicked[1].node = 5
  /\ eLast.op = "spread"
  /\ eLast.depth = 3
  /\ TimersOfKind("spread") = {}
  /\ 3 \notin DOMAIN activations
  /\ 3 \notin WithinHops(5, 3)
  /\ DOMAIN activations = WithinHops(5, 3)

\* C20 (as claimed): every pulse-wave marker recorded is removed from the
\* pulse list within 4000 ms after the click that started its activation,
\* for any sequence of clicks.
C20_PulseGoneAfter4000msOfItsClick ==
  eMounted =>
    \A i \in DOMAIN pulseWaves :
      eClock <= eClicked[pulseWaves[i].click].at + 4000

\* C20 (amended): every click cancels the pending pulse cleanup and starts a
\* new timeout of 4000 ms, whose callback empties the whole list: every
\* pulse-wave marker recorded is removed within 4000 ms after the latest
\* click, markers of earlier clicks included.
C20_PulseGoneAfter4000msOfLatestClick ==
  (eMounted /\ pulseWaves # << >>) =>
    /\ eClock <= eClicked[eClicks].at + 4000
    /\ \E t \in TimersOfKind("pulse") :
         t.id = pulseCleanupRef /\ t.due = eClicked[eClicks].at + 4000

\* a marker of the first click, still in the list more than 4000 ms after
\* that click because a second click restarted the timeout
C20_Witness ==
  /\ eMounted
  /\ eClicks = 2
  /\ \E i \in DOMAIN pulseWaves :
       /\ pulseWaves[i].click = 1
       /\ eClock > eClicked[1].at + 4000

--------------------------------------------------------------------------
\* Properties of highlightPML

\* the text of the spans, concatenated in order
RECURSIVE SpanText(_)
SpanText(parts) ==
  IF parts = << >> THEN << >> ELSE Head(parts).text \o SpanText(Tail(parts))

\* C29: for every line of the PML code sample the concatenation of the text
\* of the spans highlightPML emits equals the input line character for
\* character.
C29_SpansSpellTheLine ==
  (\E i \in DOMAIN CodeLineTexts : hText = CodeLineTexts[i]) =>
     SpanText(hParts) = hText

--------------------------------------------------------------------------
\* Properties of AnimatedCounter

\* the count of the counter in view is its target value
AtTarget == isInView /\ count = End(counter)

\* C30: once an AnimatedCounter is in view its count never exceeds the target
\* value and never decreases; after finitely many ticks (duration x 60, or
\* one more) the count equals the target exactly, and on that tick the
\* interval is cleared, so no later tick changes the count.
C30_CountRisesToTargetAndStops ==
  /\ [](isInView =>
          /\ AtMost(count, End(counter))
          /\ start.n <= Frames(counter) + 1
          /\ kMounted => (timer = ~AtTarget))
  /\ [][ isInView => AtMost(count, count') ]_vars
  /\ [][ ~timer => count' = count ]_vars
  /\ [][ (kLast' = "tick" /\ AtTarget') => ~timer' ]_vars
  /\ isInView ~> (~kMounted \/ (AtTarget /\ ~timer))

\* the 50000 counter has reached its target on the tick after the one whose
\* sum rounding left just below the target
C30_Witness ==
  /\ kMounted
  /\ isInView
  /\ counter.value = 50000
  /\ kLast = "tick"
  /\ AtTarget
  /\ start.n = Frames(counter) + 1
  /\ ~timer

--------------------------------------------------------------------------
\* Properties of both activation animations

\* C14: in every reachable state of both activation animations each node's
\* activation lies in [0,1]: every value stored in the 3D activation map is
\* in (0.05, 1], every 2D node's active field is in [0,1].
C14_ActivationInRange ==
  /\ \A k \in DOMAIN activations :
       activations[k] > 50000 /\ activations[k] <= 1000000
  /\ \A n \in DOMAIN nodes2D :
       nodes2D[n] >= 0 /\ nodes2D[n] <= 100000

\* a 2D tick that left one node near the maximum and another below one decay
\* step above zero
C14_Witness ==
  /\ mMounted
  /\ mLast.op = "tick"
  /\ \E n \in DOMAIN nodes2D : nodes2D[n] > 0 /\ nodes2D[n] < DecayStep2D
  /\ \E n \in DOMAIN nodes2D : nodes2D[n] >= 90000

--------------------------------------------------------------------------
\* Properties of DemoSimulation

ScriptMessage(i) ==
  IF i % 2 = 1
    THEN [role |-> "user", text |-> Steps[(i + 1) \div 2 + 1].user]
    ELSE [role |-> "agent", text |-> Steps[i \div 2 + 1].agent]

\* the first n messages of the script: user 1, agent 1, ..., in step order
Script(n) == [i \in 1 .. n |-> ScriptMessage(i)]

\* C5: advancing from the initial state through all steps with no reset,
\* each advance after the previous step's messages have appeared, yields
\* exactly the 8 messages user 1, agent 1, ..., user 4, agent 4 with the
\* literal texts of the script, and step ends at 4; after each completed step
\* the list is the script of the steps made so far.
C5_AllStepsYieldScript ==
  (dMounted /\ dResets = 0 /\ ~isTyping) =>
     /\ messages = Script(2 * step)
     /\ step = LastStep => (Len(messages) = 8 /\ step = 4)

\* the run has gone through all four steps without a reset
C5_Witness ==
  /\ dMounted
  /\ dResets = 0
  /\ step = 4
  /\ ~isTyping
  /\ Len(messages) = 8
  /\ dLast = "agent"

\* C6: after resetDemo, in whatever state it was triggered, there are zero
\* messages and step is 0, and the message list stays empty until the next
\* advance.
C6_EmptyFromResetToAdvance ==
  (dMounted /\ dSinceReset) => (messages = << >> /\ step = 0)

\* C8: after DemoSimulation unmounts, the timers started by an advance are
\* cleared and no timer callback runs against the unmounted component.
C8_DemoTimersClearedOnUnmount ==
  ~dMounted => (dTimers = << >> /\ ~dLate)

\* C25: in every state in which isTyping is false, under any interleaving of
\* advance clicks, reset clicks and timer callbacks, the message list is
\* exactly the script of steps 1..step (length 2 x step); no message is shown
\* while step is 0.
C25_IdleListIsScriptOfSteps ==
  (dMounted /\ ~isTyping) =>
     /\ Len(messages) = 2 * step
     /\ messages = Script(2 * step)

\* the timeouts that will append a message
MessageTimers == { i \in DOMAIN dTimers : dTimers[i].kind \in {"user", "agent"} }

\* C26: isTyping is true in exactly the states where a step's timed messages
\* are still pending, so no advance starts a step while another step's
\* message timers are outstanding: at most one step's timers are outstanding.
C26_TypingIffMessagesPending ==
  dMounted =>
    /\ isTyping = (MessageTimers # {})
    /\ Cardinality({ dTimers[i].idx : i \in MessageTimers }) <= 1
    /\ Cardinality(MessageTimers) <= 1

\* C27: the celebration overlay flag is true only while the step index is
\* the last step and the last step's agent message has been appended.
C27_CelebrationOnlyAfterLastStep ==
  (dMounted /\ showCelebration) =>
     /\ step = LastStep
     /\ messages # << >>
     /\ messages[Len(messages)] = [role |-> "agent", text |-> StepData(LastStep).agent]

--------------------------------------------------------------------------
\* Properties of TechSpecs and BibTeXSection

\* C28: switching the TechSpecs tab away from a panel and back resets that
\* panel's local state: a viewer has state only while its panel is selected,
\* a viewer that mounts starts from its initial state (ACPViewer idle and
\* showing the idle JSON, PMLViewer with the tag 'role'), whatever state it
\* was left in before the switch.
C28_TabSwitchResetsViewer ==
  /\ [](/\ (acpState = "none") = ~panelContent["acp"]
        /\ (selectedTag = "none") = ~panelContent["pml"]
        /\ uLast.op = "tab" =>
             /\ "acp" \in uLast.back => (acpState = "idle" /\ acpJson = AcpJson.idle)
             /\ "pml" \in uLast.back => selectedTag = "role")
  /\ [][ /\ (~panelContent["acp"] /\ panelContent'["acp"]) =>
             (acpState' = "idle" /\ acpJson' = AcpJson.idle)
         /\ (~panelContent["pml"] /\ panelContent'["pml"]) =>
             selectedTag' = "role" ]_vars

\* ACPViewer was left in state complete, the tab was switched away and back
C28_Witness ==
  /\ uLast.op = "tab"
  /\ activeTab = "acp"
  /\ "acp" \in uLast.back
  /\ acpState = "idle"

\* C9: in every state exactly one panel has its content rendered and is not
\* hidden, it is the panel of the selected tab, every other panel is hidden
\* and empty; after a tab click the selected tab is the clicked one.
C9_ExactlySelectedPanelShown ==
  /\ Cardinality({ p \in Panels : panelContent[p] /\ ~panelHidden[p] }) = 1
  /\ \A p \in Panels : panelContent[p] = (p = activeTab)
  /\ \A p \in Panels : panelHidden[p] = (p # activeTab)
  /\ uLast.op = "tab" => activeTab = uLast.arg

\* a tab other than the initial one was clicked and its panel is shown
C9_Witness ==
  /\ uLast.op = "tab"
  /\ uLast.arg = "luban"
  /\ panelContent["luban"]
  /\ ~panelContent["pml"]

\* C10: each copy click sets the copied indicator, which stays set for the
\* 2000 ms counted from that click and has reverted once that timeout is over,
\* for any sequence of clicks (stated for a page where the clipboard API
\* exists, so that every click reaches setCopied).
C10_CopiedFor2000msFromEachClick ==
  clipboardApi = "available" =>
    /\ (cSince >= 0 /\ cSince < CopySlices) => copied
    /\ (cSince >= CopySlices /\ \A i \in DOMAIN cTimers : cTimers[i] > 0) => ~copied

\* C12 (as claimed): a copy click always ends with the copied indicator set,
\* whether the clipboard write succeeds, is rejected, or the clipboard API is
\* unavailable.
C12_CopyAlwaysSetsCopied ==
  uLast.op = "copy" => copied

\* C12 (amended): where the clipboard API exists, a copy click ends with the
\* copied indicator set and its reset timeout scheduled, whether the write
\* succeeds or is rejected; where the API is unavailable the handler throws
\* before it sets the indicator, which stays unset with no timeout scheduled.
C12_CopySetsCopiedIffApiExists ==
  /\ (uLast.op = "copy" /\ uLast.arg \in {"resolved", "rejected"}) =>
        (clipboardApi = "available" /\ copied /\ cTimers # << >>)
  /\ (uLast.op = "copy" /\ uLast.arg = "threw") =>
        (clipboardApi = "unavailable" /\ ~copied /\ cTimers = << >>)
  /\ clipboardApi = "unavailable" => (~copied /\ cTimers = << >>)

\* a click whose clipboard write was rejected, the indicator showing success
C12_Witness ==
  /\ uLast.op = "copy"
  /\ uLast.arg = "rejected"
  /\ copied
  /\ Len(cTimers) = 2

--------------------------------------------------------------------------
\* Properties of App

AppStepped(op) == aLast'.op = op /\ aLast' # aLast

\* C13 (as claimed): scrollToSection called for an identifier that has no
\* DOM element raises no error, performs no scroll and leaves the
\* application state as it was before the click.
C13_MissingTargetChangesNothing ==
  [][ (AppStepped("scrollTo") /\ aLast'.arg \notin DomIds) =>
        /\ ~aLast'.threw
        /\ scrollPos' = scrollPos /\ scrollEvent' = scrollEvent
        /\ <<scrolled, menuOpen, isPaperOpen>>' = <<scrolled, menuOpen, isPaperOpen>>
        /\ notApp' = notApp ]_vars

\* C13 (amended): scrollToSection called for an identifier that has no DOM
\* element raises no error and performs no scroll; the one thing it changes
\* is the mobile menu, which it closes when it was open.
C13_MissingTargetOnlyClosesMenu ==
  [][ (AppStepped("scrollTo") /\ aLast'.arg \notin DomIds) =>
        /\ ~aLast'.threw
        /\ scrollPos' = scrollPos /\ scrollEvent' = scrollEvent
        /\ menuOpen' = FALSE
        /\ <<scrolled, isPaperOpen>>' = <<scrolled, isPaperOpen>>
        /\ notApp' = notApp ]_vars

\* a click for the missing identifier, made with the menu open at a section
C13_Witness ==
  /\ aLast.op = "scrollTo"
  /\ aLast.arg \notin DomIds
  /\ aLast.menu
  /\ ~menuOpen
  /\ scrollPos = "specs"
  /\ scrolled

--------------------------------------------------------------------------
\* Properties of the whole page

\* the widgets whose local state a step changes
ChangedWidgets ==
  (IF activeTab' # activeTab THEN {"TechSpecs"} ELSE {})
  \cup (IF selectedTag' # selectedTag THEN {"PMLViewer"} ELSE {})
  \cup (IF <<acpState, acpJson>>' # <<acpState, acpJson>> THEN {"ACPViewer"} ELSE {})
  \cup (IF <<step, messages, isTyping, showCelebration, dTimers>>'
            # <<step, messages, isTyping, showCelebration, dTimers>>
          THEN {"DemoSimulation"} ELSE {})
  \cup (IF nodes2D' # nodes2D THEN {"MemoryActivationDiagram"} ELSE {})
  \cup (IF <<activations, pulseWaves>>' # <<activations, pulseWaves>>
          THEN {"EngramNetwork3D"} ELSE {})
  \cup (IF <<copied, cTimers>>' # <<copied, cTimers>> THEN {"BibTeXSection"} ELSE {})
  \cup (IF <<scrolled, menuOpen, isPaperOpen>>' # <<scrolled, menuOpen, isPaperOpen>>
          THEN {"App"} ELSE {})

\* C16 (as claimed): an action in one widget (TechSpecs tab switch, ACP
\* transition, PML line selection, demo advance or reset, diagram node click,
\* citation copy, menu toggle, paper modal open/close) leaves the local state
\* of every other widget unchanged: a step changes one widget's state at most.
C16_ActionChangesOneWidget ==
  [][ Cardinality(ChangedWidgets) <= 1 ]_vars

\* C16 (amended): an action changes the local state of its own widget only,
\* except that a TechSpecs tab switch unmounts the viewer of the panel it
\* leaves and mounts the viewer of the panel it shows: the local state of
\* PMLViewer or ACPViewer is then discarded or starts afresh.  A viewer's
\* state changes otherwise only by its own action.
C16_ActionChangesOwnWidgetOrRemountsViewer ==
  [][ LET viewers == {"PMLViewer", "ACPViewer"}
          others == ChangedWidgets \ viewers
      IN /\ Cardinality(others) <= 1
         /\ (ChangedWidgets \cap viewers # {} /\ others # {}) => others = {"TechSpecs"}
         /\ ("PMLViewer" \in ChangedWidgets /\ others = {}) =>
               (ChangedWidgets = {"PMLViewer"} /\ uLast'.op = "line")
         /\ ("ACPViewer" \in ChangedWidgets /\ others = {}) =>
               (ChangedWidgets = {"ACPViewer"} /\ uLast'.op = "transition")
         /\ "TechSpecs" \in ChangedWidgets =>
               /\ selectedTag' = (IF activeTab' = "pml" THEN "role" ELSE "none")
               /\ acpState' = (IF activeTab' = "acp" THEN "idle" ELSE "none") ]_vars

\* a tab switch made while the demo was advanced, a diagram node was clicked,
\* the citation was copied, the menu and the paper modal were open and the
\* PML viewer had another tag selected: the viewer's state is gone, the rest
\* is as it was
C16_Witness ==
  /\ uLast.op = "tab"
  /\ activeTab = "luban"
  /\ selectedTag = "none"
  /\ step = 1
  /\ mClicks = 1
  /\ copied
  /\ menuOpen
  /\ isPaperOpen

====
